---- MODULE Spec2Model ----
(***************************************************************************)
(* Model of streamlit_folium/__init__.py: the template-to-script           *)
(* transcoding of a folium object tree (_generate_leaflet_string,          *)
(* _replace_folium_vars, generate_leaflet_string), the fingerprint         *)
(* (generate_js_hash) and the orchestrator (st_folium) with its dynamic    *)
(* additions.                                                              *)
(*                                                                         *)
(* Script text is a sequence of one-character strings, so that str.replace *)
(* and the regular expressions act on it character by character.           *)
(***************************************************************************)
EXTENDS Integers, Sequences, FiniteSets, TLC

-----------------------------------------------------------------------------
(* Text primitives                                                         *)

Lower == {"a","b","c","d","e","f","g","h","i","j","k","l","m",
          "n","o","p","q","r","s","t","u","v","w","x","y","z"}

Digits == {"0","1","2","3","4","5","6","7","8","9"}

Alnum == Lower \cup Digits

\* the character class [a-z0-9]
IsAlnum(c) == c \in Alnum

\* the character class [-a-z0-9]
IsUrlChar(c) == c = "-" \/ IsAlnum(c)

DigitChar == <<"0","1","2","3","4","5","6","7","8","9">>

\* str(i) of a non-negative integer, as used by the f-strings
RECURSIVE IntToStr(_)
IntToStr(i) ==
    IF i < 10 THEN <<DigitChar[i + 1]>>
    ELSE IntToStr(i \div 10) \o <<DigitChar[(i % 10) + 1]>>

\* s[i..] starts with w
StartsAt(s, i, w) ==
    /\ i + Len(w) - 1 <= Len(s)
    /\ w = <<>> \/ s[i] = w[1]
    /\ \A k \in 1..Len(w) : s[i + k - 1] = w[k]

\* w occurs in s (Python: w in s)
Contains(s, w) == \E i \in 1..(Len(s) + 1) : StartsAt(s, i, w)

\* the smallest element of a non-empty set of integers
Least(P) == CHOOSE j \in P : \A k \in P : j <= k

\* first position >= i where w occurs in s, 0 when there is none
Find(s, i, w) ==
    LET Near == {j \in i..(IF i + 15 < Len(s) THEN i + 15 ELSE Len(s)) :
                    StartsAt(s, j, w)}
        Far  == {j \in (i + 16)..Len(s) : StartsAt(s, j, w)}
    IN IF Near # {} THEN Least(Near)
       ELSE IF Far # {} THEN Least(Far)
       ELSE 0

RECURSIVE ReplaceFrom(_, _, _, _)
ReplaceFrom(s, old, new, i) ==
    LET j == Find(s, i, old) IN
    IF j = 0 THEN SubSeq(s, i, Len(s))
    ELSE SubSeq(s, i, j - 1) \o new \o ReplaceFrom(s, old, new, j + Len(old))

\* Python str.replace(old, new) for a non-empty old: leftmost,
\* non-overlapping occurrences
StrReplace(s, old, new) == ReplaceFrom(s, old, new, 1)

\* index of the last character of the maximal [a-z0-9] run starting at i
\* (i - 1 when s[i] is not in the class)
RECURSIVE RunEnd(_, _)
RunEnd(s, i) ==
    IF i <= Len(s) /\ IsAlnum(s[i]) THEN RunEnd(s, i + 1) ELSE i - 1

\* index of the last character of the maximal [-a-z0-9] run starting at i
RECURSIVE UrlRunEnd(_, _)
UrlRunEnd(s, i) ==
    IF i <= Len(s) /\ IsUrlChar(s[i]) THEN UrlRunEnd(s, i + 1) ELSE i - 1

\* the characters of s[lo..hi] at positions outside gone, in order
RECURSIVE Outside(_, _, _, _)
Outside(s, gone, lo, hi) ==
    IF lo > hi THEN <<>>
    ELSE IF lo = hi THEN (IF lo \in gone THEN <<>> ELSE <<s[lo]>>)
    ELSE Outside(s, gone, lo, (lo + hi) \div 2) \o
         Outside(s, gone, (lo + hi) \div 2 + 1, hi)

\* dict update mappings[k] = v
Put(mp, k, v) == [x \in (DOMAIN mp) \cup {k} |-> IF x = k THEN v ELSE mp[x]]

NoMap == [x \in {} |-> <<>>]

-----------------------------------------------------------------------------
(* The object tree (folium's MacroElement objects, consumed as a black box) *)

Nodes == 1..5

\* _name.lower() of each kind of node
KindName ==
    [ map           |-> <<"m","a","p">>,
      tile_layer    |-> <<"t","i","l","e","_","l","a","y","e","r">>,
      marker        |-> <<"m","a","r","k","e","r">>,
      feature_group |-> <<"f","e","a","t","u","r","e","_","g","r","o","u","p">>,
      dual_map      |-> <<"d","u","a","l","_","m","a","p">>,
      add           |-> <<"a","d","d">>,
      draw_control  |-> <<"d","r","a","w","_","c","o","n","t","r","o","l">>,
      layer_control |-> <<"l","a","y","e","r","_","c","o","n","t","r","o","l">>,
      none          |-> <<>> ]

\* get_full_id: f"{m._name.lower()}_{m._id}"
FullName(kind, id) == KindName[kind] \o <<"_">> \o id

-----------------------------------------------------------------------------
(* Tree shapes.  children is the insertion-ordered _children, parent is     *)
(* _parent (0: none), m1/m2 are the two panes of a DualMap (0: none).       *)

NoKids == [n \in Nodes |-> <<>>]
NoNode == [n \in Nodes |-> 0]

\* a map with a tile layer (shown, so it owns an ElementAddToElement) and a
\* marker that has a child of its own
ShapeTile ==
    [ kind     |-> <<"map", "tile_layer", "marker", "add", "marker">>,
      children |-> [NoKids EXCEPT ![1] = <<2, 3>>, ![2] = <<4>>, ![3] = <<5>>],
      parent   |-> <<0, 1, 1, 2, 3>>,
      m1       |-> NoNode,
      m2       |-> NoNode ]

\* a map with a feature group (shown) holding a marker, and a marker
ShapeGroup ==
    [ kind     |-> <<"map", "feature_group", "marker", "add", "marker">>,
      children |-> [NoKids EXCEPT ![1] = <<2, 3>>, ![2] = <<4, 5>>],
      parent   |-> <<0, 1, 1, 2, 2>>,
      m1       |-> NoNode,
      m2       |-> NoNode ]

\* a DualMap whose panes hold one marker each
ShapeDual ==
    [ kind     |-> <<"dual_map", "map", "map", "marker", "marker">>,
      children |-> [NoKids EXCEPT ![2] = <<4>>, ![3] = <<5>>],
      parent   |-> <<0, 0, 0, 2, 3>>,
      m1       |-> [NoNode EXCEPT ![1] = 2],
      m2       |-> [NoNode EXCEPT ![1] = 3] ]

Shapes == {ShapeTile, ShapeGroup, ShapeDual}

\* a map with a tile layer, a draw control and a marker, the draw control
\* being the child of index 1
ShapeDrawSecond ==
    [ kind     |-> <<"map", "tile_layer", "draw_control", "add", "marker">>,
      children |-> [NoKids EXCEPT ![1] = <<2, 3, 5>>, ![2] = <<4>>],
      parent   |-> <<0, 1, 1, 2, 1>>,
      m1       |-> NoNode,
      m2       |-> NoNode ]

\* the same objects with the marker added before the draw control, which is
\* then the child of index 2
ShapeDrawThird ==
    [ kind     |-> <<"map", "tile_layer", "draw_control", "add", "marker">>,
      children |-> [NoKids EXCEPT ![1] = <<2, 5, 3>>, ![2] = <<4>>],
      parent   |-> <<0, 1, 1, 2, 1>>,
      m1       |-> NoNode,
      m2       |-> NoNode ]

Root == 1

IsDual(t, m) == t.kind[m] = "dual_map"

\* How the rendering collaborator of a node behaves:
\*   ok    - _template.module.script(m) returns the fragment
\*   alt   - script raises UndefinedError, _template.render returns it
\*   undef - both entry points raise UndefinedError
\*   attr  - the node lacks the attribute, AttributeError is raised
Behaviours == {"ok", "alt", "undef", "attr"}

AllOk == [n \in Nodes |-> "ok"]

\* at most one node of the tree misbehaves
Tmpls == {AllOk} \cup
         {[AllOk EXCEPT ![n] = "undef"] : n \in {1, 2, 4, 5}} \cup
         {[AllOk EXCEPT ![3] = "alt"], [AllOk EXCEPT ![2] = "attr"]}

\* Ephemeral identifiers as the object model hands them out: pairwise
\* distinct runs of lowercase hexadecimal characters
Eph1 == << <<"e","1">>, <<"e","2">>, <<"e","3">>, <<"e","4">>, <<"e","5">> >>
Eph2 == << <<"f","6">>, <<"f","7">>, <<"f","8">>, <<"f","9">>, <<"f","0">> >>

Insts == {"A", "B"}

EphOf == [A |-> Eph1, B |-> Eph2]

NoRole == [element_name |-> <<>>, element_parent_name |-> <<>>, has |-> FALSE]

\* The names an ElementAddToElement captured when the collaborator's full
\* render created it: the full names (get_full_id form) of the layer it
\* belongs to and of that layer's parent, with the identifiers of that time.
RolesOf(t, eph) ==
    [n \in DOMAIN t.kind |->
        IF t.kind[n] = "add" /\ t.parent[t.parent[n]] # 0
        THEN [ element_name        |-> FullName(t.kind[t.parent[n]], eph[t.parent[n]]),
               element_parent_name |-> FullName(t.kind[t.parent[t.parent[n]]],
                                                eph[t.parent[t.parent[n]]]),
               has                 |-> TRUE ]
        ELSE NoRole]

-----------------------------------------------------------------------------
(* The rendering collaborator: the raw fragment of one node, emitted with   *)
(* whatever identifier is currently set on the node and on its parent.      *)

NL == <<"\n">>

\* what the template of a draw control emits besides the names: the store
\* of the drawn items is named after the control, and a click handler
\* raises a popup
DrawnItemsPrefix == <<"d","r","a","w","n","I","t","e","m","s","_">>
Alert == <<"a","l","e","r","t","(","c","o","o","r","d","s",")",";">>

Fragment(t, rl, ids, m) ==
    LET k == t.kind[m] IN
    IF k = "dual_map"
    THEN FullName("map", ids[t.m1[m]]) \o <<"~">> \o
         FullName("map", ids[t.m2[m]]) \o <<";">>
    ELSE IF k = "draw_control"
    THEN DrawnItemsPrefix \o FullName(k, ids[m]) \o <<">">> \o
         FullName(t.kind[t.parent[m]], ids[t.parent[m]]) \o <<";">> \o Alert
    ELSE IF k = "add"
    THEN rl[m].element_name \o <<">">> \o rl[m].element_parent_name \o <<";">>
    ELSE IF t.parent[m] = 0
    THEN FullName(k, ids[m]) \o <<";">>
    ELSE FullName(k, ids[m]) \o <<">">> \o
         FullName(t.kind[t.parent[m]], ids[t.parent[m]]) \o <<";">>

\* _template.render(this=m, kwargs={}): the alternate entry point
AltFragment(t, rl, ids, m) == <<"#">> \o Fragment(t, rl, ids, m)

-----------------------------------------------------------------------------
(* _generate_leaflet_string                                                 *)

\* lines 445-456: record the node, the auxiliary roles, then mutate _id
Assign(t, rl, m, base_id, st) ==
    LET mp1 == Put(st.mappings, st.ids[m], base_id)
        element_id == StrReplace(StrReplace(rl[m].element_name,
                          <<"m","a","p","_">>, <<>>),
                          <<"t","i","l","e","_","l","a","y","e","r","_">>, <<>>)
        parent_id  == StrReplace(StrReplace(rl[m].element_parent_name,
                          <<"m","a","p","_">>, <<>>),
                          <<"t","i","l","e","_","l","a","y","e","r","_">>, <<>>)
        mp2 == IF rl[m].has /\ element_id \notin DOMAIN mp1
               THEN Put(mp1, element_id, st.ids[t.parent[m]])
               ELSE mp1
        mp3 == IF rl[m].has /\ parent_id \notin DOMAIN mp2
               THEN Put(mp2, parent_id, st.ids[t.parent[t.parent[m]]])
               ELSE mp2
    IN [ ids      |-> [st.ids EXCEPT ![m] = base_id],
         mappings |-> mp3,
         log      |-> Append(st.log, <<"assign", m>>) ]

\* the children that render counted, those that raise left out
EnumerateRendering(t, m, k) ==
    Cardinality({j \in 1..(k - 1) :
                    t.tmpl[t.children[m][j]] \notin {"undef", "attr"}})

\* line 491: enumerate(m._children.values()), the idx of the k-th child
Enumerate(t, m, k) == k - 1

\* line 496: f"{base_id}_{idx}", idx counting from 0
ChildBaseOneBased(base_id, idx) == base_id \o <<"_">> \o IntToStr(idx + 1)

ChildBase(base_id, idx) == base_id \o <<"_">> \o IntToStr(idx)

\* line 499: except (UndefinedError, AttributeError)
CaughtAttributeOnly(exc) == exc = "AttributeError"

Caught(exc) == exc \in {"UndefinedError", "AttributeError"}

RECURSIVE GenNode(_, _, _, _, _, _)
RECURSIVE GenChildren(_, _, _, _, _, _)

\* lines 491-500: the children in order, each under "{base_id}_{idx}";
\* a child that raises UndefinedError or AttributeError is skipped
GenChildren(t, rl, m, base_id, i, acc) ==
    LET After(r) ==
            IF r.exc # "none" /\ ~Caught(r.exc) THEN r
            ELSE GenChildren(t, rl, m, base_id, i + 1,
                [ leaflet  |-> IF r.exc = "none"
                               THEN acc.leaflet \o NL \o r.leaflet
                               ELSE acc.leaflet,
                  ids      |-> r.ids,
                  mappings |-> r.mappings,
                  log      |-> r.log,
                  exc      |-> "none" ])
    IN IF i > Len(t.children[m]) THEN acc
       ELSE After(GenNode(t, rl, t.children[m][i], TRUE,
                          ChildBase(base_id, Enumerate(t, m, i)),
                          [ids |-> acc.ids, mappings |-> acc.mappings,
                           log |-> acc.log]))

\* the state the mutations of a call leave behind, with what it returned
\* (leaflet) or raised (exc)
Outcome(st, leaflet, exc) ==
    [ leaflet |-> leaflet, ids |-> st.ids, mappings |-> st.mappings,
      log |-> st.log, exc |-> exc ]

\* the exception a misbehaving template raises
Raised(behaviour) ==
    IF behaviour = "attr" THEN "AttributeError" ELSE "UndefinedError"

\* the link put before the panes
LinkedScriptLinkFirst(leaflet1, leaflet2, link) ==
    link \o leaflet1 \o NL \o leaflet2

\* lines 467-478: the first pane's script, a newline and the second pane's,
\* then the script that syncs them
LinkedScript(leaflet1, leaflet2, link) ==
    leaflet1 \o NL \o leaflet2 \o link

\* _generate_leaflet_string(m, nested, base_id, mappings); st carries the
\* objects' _id fields and the mappings dict, both mutated in place, so they
\* are returned even when the call raises (exc)
GenNode(t, rl, m, nested, base_id, st) ==
    LET \* lines 473-481: the second pane under "div2", then the link
        Pane2(r1, r2) ==
            IF r2.exc # "none" THEN r2
            ELSE IF t.tmpl[m] # "ok"
            THEN Outcome(r2, <<>>, Raised(t.tmpl[m]))
            ELSE Outcome([r2 EXCEPT !.log = Append(@, <<"link", m>>)],
                         LinkedScript(r1.leaflet, r2.leaflet,
                                      Fragment(t, rl, r2.ids, m)), "none")
        \* lines 467-472: the first pane under base_id
        Pane1(r1) ==
            IF r1.exc # "none" THEN r1
            ELSE Pane2(r1, GenNode(t, rl, t.m2[m], nested, <<"d","i","v","2">>,
                                   [ids |-> r1.ids, mappings |-> r1.mappings,
                                    log |-> r1.log]))
        \* lines 483-500: the node's own fragment, then its children
        Own(a) ==
            LET own == Outcome([a EXCEPT !.log = Append(@, <<"fragment", m>>)],
                               IF t.tmpl[m] = "alt"
                               THEN AltFragment(t, rl, a.ids, m)
                               ELSE Fragment(t, rl, a.ids, m), "none")
            IN IF ~nested THEN own
               ELSE GenChildren(t, rl, m, base_id, 1, own)
        Body(a) ==
            IF IsDual(t, m)
            THEN IF ~nested
                 THEN GenNode(t, rl, t.m1[m], FALSE, base_id, a)
                 ELSE Pane1(GenNode(t, rl, t.m1[m], nested, base_id, a))
            ELSE IF t.tmpl[m] \in {"undef", "attr"}
            THEN Outcome(a, <<>>, Raised(t.tmpl[m]))
            ELSE Own(a)
    IN Body(Assign(t, rl, m, base_id, st))

-----------------------------------------------------------------------------
(* _replace_folium_vars and generate_leaflet_string                         *)

\* _FOLIUM_VAR_SUFFIX_PATTERN = "_[a-z0-9]+(?!_)" tried at position i:
\* the index of the last character of the match, 0 when there is none.
\* The run is taken greedily; when the lookahead fails on a following
\* underscore the engine gives back one character and then succeeds, unless
\* the run has a single character.
FoliumVarSuffixMatchEnd(s, i) ==
    IF s[i] # "_" THEN 0
    ELSE LET e == RunEnd(s, i + 1) IN
         IF e < i + 1 THEN 0
         ELSE IF e < Len(s) /\ s[e + 1] = "_"
              THEN (IF e - 1 >= i + 1 THEN e - 1 ELSE 0)
              ELSE e

\* str.strip("_")
StripUnderscores(s) ==
    LET P == {j \in 1..Len(s) : s[j] # "_"}
    IN IF P = {} THEN <<>>
       ELSE SubSeq(s, Least(P), CHOOSE j \in P : \A k \in P : k <= j)

\* a closure that drops the match when the candidate is not a key
ReplaceMatchOrDrop(match_str, mappings) ==
    LET leaflet_id == StripUnderscores(match_str) IN
    IF leaflet_id \in DOMAIN mappings /\ mappings[leaflet_id] # <<>>
    THEN StrReplace(match_str, leaflet_id, mappings[leaflet_id])
    ELSE <<>>

\* the closure replace(match) of _replace_folium_vars
ReplaceMatch(match_str, mappings) ==
    LET leaflet_id == StripUnderscores(match_str) IN
    IF leaflet_id \in DOMAIN mappings /\ mappings[leaflet_id] # <<>>
    THEN StrReplace(match_str, leaflet_id, mappings[leaflet_id])
    ELSE match_str

\* The matches of the pattern in s, as a function from the first position of
\* a match to its last.  A match starts with an underscore and holds none
\* after it, so no match reaches the start of another and the leftmost,
\* non-overlapping matches re.sub finds are all of them.
FoliumVarMatches(s) ==
    [j \in {k \in 1..Len(s) : FoliumVarSuffixMatchEnd(s, k) # 0} |->
        FoliumVarSuffixMatchEnd(s, j)]

\* the positions of the matches ends after their first position
Tails(ends) == UNION {(j + 1)..ends[j] : j \in DOMAIN ends}

\* re.sub(replace, s) on s[lo..hi]: each match gives way to what the
\* closure returns for it, the other characters stay
RECURSIVE SubFoliumVars(_, _, _, _, _, _)
SubFoliumVars(s, mappings, ends, tails, lo, hi) ==
    IF lo > hi THEN <<>>
    ELSE IF lo = hi
    THEN (IF lo \in DOMAIN ends
          THEN ReplaceMatch(SubSeq(s, lo, ends[lo]), mappings)
          ELSE IF lo \in tails THEN <<>> ELSE <<s[lo]>>)
    ELSE SubFoliumVars(s, mappings, ends, tails, lo, (lo + hi) \div 2) \o
         SubFoliumVars(s, mappings, ends, tails, (lo + hi) \div 2 + 1, hi)

\* _replace_folium_vars(leaflet, mappings)
ReplaceFoliumVars(leaflet, mappings) ==
    LET With(ends) ==
            SubFoliumVars(leaflet, mappings, ends, Tails(ends), 1, Len(leaflet))
    IN With(FoliumVarMatches(leaflet))

\* generate_leaflet_string(m, nested, base_id) on the objects whose _id
\* fields are ids; raw is the text before the final pass
GenerateLeafletString(t, rl, ids, m, nested, base_id) ==
    LET Returned(r) ==
            [ leaflet  |-> IF r.exc = "none"
                           THEN ReplaceFoliumVars(r.leaflet, r.mappings)
                           ELSE <<>>,
              raw      |-> r.leaflet,
              ids      |-> r.ids,
              mappings |-> r.mappings,
              log      |-> r.log,
              exc      |-> r.exc ]
    IN Returned(GenNode(t, rl, m, nested, base_id,
                        [ids |-> ids, mappings |-> NoMap, log |-> <<>>]))

-----------------------------------------------------------------------------
(* generate_js_hash                                                         *)

\* the pattern "(_[a-z0-9]+)" tried at position i, letters only in the run
HashSuffixMatchEndLetters(s, i) ==
    IF s[i] # "_" THEN 0
    ELSE LET P == {j \in (i + 1)..Len(s) :
                      \A k \in (i + 1)..j : s[k] \in Lower}
         IN IF P = {} THEN 0 ELSE CHOOSE j \in P : \A k \in P : k <= j

\* the pattern "(_[a-z0-9]+)" of line 44 tried at position i: the index of
\* the last character of the match, 0 when there is none
HashSuffixMatchEnd(s, i) ==
    IF s[i] # "_" THEN 0
    ELSE IF RunEnd(s, i + 1) < i + 1 THEN 0
    ELSE RunEnd(s, i + 1)

\* the matches of the pattern in s, from first to last position; as above
\* they are the leftmost, non-overlapping matches re.sub finds
HashSuffixMatches(s) ==
    [j \in {k \in 1..Len(s) : HashSuffixMatchEnd(s, k) # 0} |->
        HashSuffixMatchEnd(s, j)]

\* re.sub(pattern, "", s)
StripSuffixes(s) ==
    LET With(ends) == Outside(s, DOMAIN ends \cup Tails(ends), 1, Len(s))
    IN With(HashSuffixMatches(s))

MapsSlash == <<"m","a","p","s","/">>

\* the pattern "(maps\/[-a-z0-9]+\/)" of line 46 tried at position i
UrlMatchEnd(s, i) ==
    IF ~StartsAt(s, i, MapsSlash) THEN 0
    ELSE IF UrlRunEnd(s, i + Len(MapsSlash)) < i + Len(MapsSlash) THEN 0
    ELSE IF UrlRunEnd(s, i + Len(MapsSlash)) < Len(s)
            /\ s[UrlRunEnd(s, i + Len(MapsSlash)) + 1] = "/"
    THEN UrlRunEnd(s, i + Len(MapsSlash)) + 1
    ELSE 0

\* re.sub(url_pattern, "", s) scanning from position i
RECURSIVE StripUrlsFrom(_, _)
StripUrlsFrom(s, i) ==
    LET Cut(j) ==
            IF j = 0 THEN SubSeq(s, i, Len(s))
            ELSE IF UrlMatchEnd(s, j) = 0
            THEN SubSeq(s, i, j) \o StripUrlsFrom(s, j + 1)
            ELSE SubSeq(s, i, j - 1) \o StripUrlsFrom(s, UrlMatchEnd(s, j) + 1)
    IN Cut(Find(s, i, MapsSlash))

StripUrls(s) == StripUrlsFrom(s, 1)

\* A key argument: None or a string
KNone == [none |-> TRUE, text |-> <<>>]
KStr(s) == [none |-> FALSE, text |-> s]

\* str(key)
StrKey(key) == IF key.none THEN <<"N","o","n","e">> ELSE key.text

\* str(return_on_hover)
BoolText(b) == IF b THEN <<"T","r","u","e">> ELSE <<"F","a","l","s","e">>

\* the digested string with the key appended a single time
PreImageKeyOnce(js_string, key, return_on_hover) ==
    StripUrls(StripSuffixes(js_string) \o StrKey(key)) \o
    BoolText(return_on_hover)

\* lines 44-49: standardized_js
PreImage(js_string, key, return_on_hover) ==
    StripUrls(StripSuffixes(js_string) \o StrKey(key)) \o StrKey(key) \o
    BoolText(return_on_hover)

\* hashlib.sha256(...).hexdigest(), idealised as collision free: the digest
\* stands for its pre-image
Sha256Hex(pre) == [sha256 |-> pre]

GenerateJsHash(js_string, key, return_on_hover) ==
    Sha256Hex(PreImage(js_string, key, return_on_hover))

\* line 416: the key st_folium hands to generate_js_hash,
\* f"{key}_{max_drawn_objects}"
ComponentKey(key, max_drawn_objects) ==
    KStr(StrKey(key) \o <<"_">> \o IntToStr(max_drawn_objects))

\* the default base_id of generate_leaflet_string, and the literal of line 474
Div  == <<"d","i","v">>
Div2 == <<"d","i","v","2">>

-----------------------------------------------------------------------------
(* get_full_id, textwrap.dedent and _get_map_string                         *)

\* get_full_id(m): the name of the first pane for a DualMap
GetFullId(t, idsNow, m) ==
    IF IsDual(t, m) THEN FullName(t.kind[t.m1[m]], idsNow[t.m1[m]])
    ELSE FullName(t.kind[m], idsNow[m])

\* the first positions of the lines of s
LineStarts(s) ==
    {p \in 1..Len(s) : p = 1 \/ s[p - 1] = "\n"}

\* the position just after the leading spaces of the line starting at p
RECURSIVE IndentEnd(_, _)
IndentEnd(s, p) ==
    IF p <= Len(s) /\ s[p] = " " THEN IndentEnd(s, p + 1) ELSE p

\* the line starting at p holds only spaces
BlankLine(s, p) == IndentEnd(s, p) = Len(s) + 1 \/ s[IndentEnd(s, p)] = "\n"

\* the number of leading spaces common to the lines that hold text
Margin(s) ==
    LET Widths == {IndentEnd(s, p) - p : p \in {q \in LineStarts(s) : ~BlankLine(s, q)}}
    IN IF Widths = {} THEN 0 ELSE Least(Widths)

\* textwrap.dedent: the common margin is removed from every line that holds
\* text, a line of spaces only is emptied
Dedent(s) ==
    LET Cut(margin) ==
            Outside(s,
                    UNION {IF BlankLine(s, p) THEN p..(IndentEnd(s, p) - 1)
                           ELSE p..(p + margin - 1) : p \in LineStarts(s)},
                    1, Len(s))
    IN Cut(Margin(s))

DrawControlItems == <<"d","r","a","w","n","I","t","e","m","s","_","d","r","a","w","_","c","o","n","t","r","o","l","_","d","i","v","_","1">>
DrawnItems == <<"d","r","a","w","n","I","t","e","m","s">>
VarDrawnItems == <<"\n","v","a","r"," ","d","r","a","w","n","I","t","e","m","s"," ","="," ","[","]",";">>
MapDiv == <<"m","a","p","_","d","i","v">>
MapDiv2 == <<"m","a","p","_","d","i","v","2">>

\* lines 134-143: the popup call removed, the draw control's items renamed,
\* the margin removed, the drawnItems declaration supplied when missing
EnsureDrawnItems(s) ==
    IF Contains(s, DrawnItems) THEN s ELSE s \o VarDrawnItems

\* lines 149-151: the second pane of a DualMap is renamed to map_div2
RenameSecondPane(t, idsNow, s) ==
    IF IsDual(t, Root)
    THEN StrReplace(s, GetFullId(t, idsNow, t.m2[Root]), MapDiv2)
    ELSE s

\* _get_map_string(fig) on the objects whose _id fields are idsNow
GetMapString(t, rl, idsNow) ==
    LET Framed(r) ==
            IF r.exc # "none"
            THEN [leaflet |-> <<>>, ids |-> r.ids, exc |-> r.exc]
            ELSE [ leaflet |-> RenameSecondPane(t, r.ids,
                                   EnsureDrawnItems(Dedent(
                                       StrReplace(StrReplace(r.leaflet, Alert, <<>>),
                                                  DrawControlItems, DrawnItems)))),
                   ids     |-> r.ids,
                   exc     |-> "none" ]
    IN Framed(GenerateLeafletString(t, rl, idsNow, Root, TRUE, Div))

-----------------------------------------------------------------------------
(* Feature groups added dynamically: _get_feature_group_string              *)

\* feature groups a caller passes in one call
MaxGroups == 2

\* a FeatureGroup as the caller builds it (a marker inside) and as its
\* render leaves it (shown, so it owns an ElementAddToElement)
GroupKinds == <<"feature_group", "marker", "add">>

\* the node that stands for the group of index idx (idx counts from 0)
GroupNode(idx) == Len(Eph1) + Len(GroupKinds) * idx + 1

\* the node that stands for the LayerControl a caller passes
LayerControlNode == Len(Eph1) + Len(GroupKinds) * MaxGroups + 1

IsGroupNode(n) ==
    /\ n > Len(Eph1) /\ n < LayerControlNode
    /\ (n - Len(Eph1) - 1) % Len(GroupKinds) = 0

\* the group a node beyond the map's own nodes belongs to
GroupOf(n) == n - ((n - Len(Eph1) - 1) % Len(GroupKinds))

AllNodes == 1..LayerControlNode

\* the map of shape sh with the groups not attached yet
WithGroups(sh) ==
    [ kind     |-> [n \in AllNodes |->
                      IF n \in Nodes THEN sh.kind[n]
                      ELSE IF n = LayerControlNode THEN "layer_control"
                      ELSE GroupKinds[n - GroupOf(n) + 1]],
      children |-> [n \in AllNodes |->
                      IF n \in Nodes THEN sh.children[n]
                      ELSE IF IsGroupNode(n) THEN <<n + 1, n + 2>>
                      ELSE <<>>],
      parent   |-> [n \in AllNodes |->
                      IF n \in Nodes THEN sh.parent[n]
                      ELSE IF IsGroupNode(n) \/ n = LayerControlNode THEN 0
                      ELSE GroupOf(n)],
      m1       |-> [n \in AllNodes |-> IF n \in Nodes THEN sh.m1[n] ELSE 0],
      m2       |-> [n \in AllNodes |-> IF n \in Nodes THEN sh.m2[n] ELSE 0],
      tmpl     |-> [n \in AllNodes |-> "ok"] ]

\* the identifiers of freshly built objects
FreshIds == [n \in AllNodes |-> IF n \in Nodes THEN Eph1[n] ELSE <<"a">> \o IntToStr(n)]

FeatureGroupPrefix == <<"f","e","a","t","u","r","e","_","g","r","o","u","p","_">>

\* every group named after index 0
FeatureGroupIdZero(idx) == FeatureGroupPrefix \o IntToStr(0)

\* lines 161 and 165: f"feature_group_{idx}"
FeatureGroupId(idx) == FeatureGroupPrefix \o IntToStr(idx)

\* lines 171-177: the statements appended for the group, as the dedent of
\* the literal leaves them; each statement head is kept as one token
AddLayerOpen == "map_div.addLayer("
PushOpen     == "window.feature_group.push("
InitList     == "window.feature_group = window.feature_group || [];"
StmtClose    == ");"

Snippet(idx) ==
    <<"\n", AddLayerOpen>> \o FullName("feature_group", FeatureGroupId(idx)) \o
    <<StmtClose, "\n", InitList, "\n", PushOpen>> \o
    FullName("feature_group", FeatureGroupId(idx)) \o <<StmtClose, "\n">>

\* add_to(map): map._children[name] = group; a new key goes last, a key
\* already present keeps its place
AddTo(t, g) ==
    [t EXCEPT !.parent[g] = Root,
              !.children[Root] = IF \E k \in DOMAIN @ : @[k] = g THEN @
                                 ELSE Append(@, g)]

\* _get_feature_group_string(group, map, idx) for a freshly built group;
\* fs holds the objects (tree, ids, roles)
GetFeatureGroupString(fs, idx) ==
    LET g == GroupNode(idx)
        Named(t, idsNow) ==
            LET Rendered(rl) ==
                    LET Done(r) ==
                            [ tree  |-> t,
                              ids   |-> r.ids,
                              roles |-> rl,
                              exc   |-> r.exc,
                              text  |-> IF r.exc # "none" THEN <<>>
                                        ELSE Dedent(StrReplace(r.leaflet,
                                                 GetFullId(t, r.ids, Root), MapDiv))
                                             \o Snippet(idx) ]
                    IN Done(GenerateLeafletString(t, rl, idsNow, g, TRUE,
                                                  FeatureGroupId(idx)))
            IN Rendered([fs.roles EXCEPT ![g + 2] = RolesOf(t, idsNow)[g + 2]])
    IN Named(AddTo(fs.tree, g),
             [fs.ids EXCEPT ![g] = FeatureGroupId(idx),
                            ![g + 1] = FreshIds[g + 1],
                            ![g + 2] = FreshIds[g + 2]])

\* lines 358-364: the groups in call order, their strings concatenated
RECURSIVE FeatureGroupStrings(_, _, _, _)
FeatureGroupStrings(fs, idx, n, text) ==
    LET Next(r) ==
            IF r.exc # "none" THEN r
            ELSE FeatureGroupStrings([tree |-> r.tree, ids |-> r.ids,
                                      roles |-> r.roles],
                                     idx + 1, n, text \o r.text)
    IN IF idx >= n
       THEN [tree |-> fs.tree, ids |-> fs.ids, roles |-> fs.roles,
             exc |-> "none", text |-> text]
       ELSE Next(GetFeatureGroupString(fs, idx))

-----------------------------------------------------------------------------
(* A layer control added dynamically: _get_layer_control_string             *)

\* line 186 and 189: the literal "layer_control"
LayerControlId == KindName["layer_control"]

\* lines 193-197: the statement appended for the control, its head kept as
\* one token
LayerControlAssign == "window.layer_control = "
AssignClose        == ";"

LayerControlSnippet ==
    <<"\n", LayerControlAssign>> \o FullName("layer_control", LayerControlId) \o
    <<AssignClose, "\n">>

\* _get_layer_control_string(control, map) for a freshly built control;
\* fs holds the objects (tree, ids, roles)
GetLayerControlString(fs) ==
    LET c == LayerControlNode
        Named(t, idsNow) ==
            LET Done(r) ==
                    [ tree  |-> t,
                      ids   |-> r.ids,
                      roles |-> fs.roles,
                      exc   |-> r.exc,
                      text  |-> IF r.exc # "none" THEN <<>>
                                ELSE Dedent(StrReplace(r.leaflet,
                                         GetFullId(t, r.ids, Root), MapDiv))
                                     \o LayerControlSnippet ]
            IN Done(GenerateLeafletString(t, fs.roles, idsNow, c, TRUE,
                                          LayerControlId))
    IN Named(AddTo(fs.tree, c), [fs.ids EXCEPT ![c] = LayerControlId])

-----------------------------------------------------------------------------
(* State                                                                    *)

VARIABLES
    tree,       \* the object tree under render: a shape plus tmpl
    ids,        \* ids[i][n]: the _id field of node n of tree instance i
    roles,      \* roles[i][n]: element_name / element_parent_name of node n
    last,       \* the most recent generate_leaflet_string call and its result
    produced,   \* produced[<<nested, base_id>>]: the scripts returned so far
    calls,      \* number of calls made
    scripts,    \* scripts[src]: the script texts offered to generate_js_hash
    call1,      \* a first generate_js_hash call and its result
    call2,      \* a second generate_js_hash call and its result
    payload,    \* what the last st_folium call handed to the host component
    fig,        \* what the map object answers to get_bounds() and options
    norm,       \* one _replace_folium_vars call: its arguments and its result
    dicts,      \* the mappings dicts allocated so far, by address
    procs       \* procs[p]: the generate_leaflet_string call thread p runs

renderVars == <<tree, ids, roles, last, produced, calls>>

hashVars == <<scripts, call1, call2>>

foliumVars == <<payload, fig>>

normVars == <<norm>>

stepVars == <<dicts, procs>>

\* calls explored per behaviour
MaxCalls == 2

vars == <<renderVars, hashVars, foliumVars, normVars, stepVars>>

\* base identifiers a caller passes: the default of generate_leaflet_string
\* and one more
Bases == {Div, Div2}

NoResult ==
    [ leaflet |-> <<>>, raw |-> <<>>, ids |-> Eph1, mappings |-> NoMap,
      log |-> <<>>, exc |-> "none" ]

NoCall ==
    [ inst |-> "none", nested |-> TRUE, base_id |-> Div, before |-> Eph1,
      res |-> NoResult ]

\* no generate_js_hash call made
NoHash ==
    [ made |-> FALSE, via |-> "none", src |-> <<"none", "none">>, js |-> <<>>,
      caller_key |-> KNone, key |-> KNone, hover |-> FALSE, pre |-> <<>>,
      digest |-> Sha256Hex(<<>>) ]

NoScripts == [src \in {} |-> <<>>]

HashIdle == scripts = NoScripts /\ call1 = NoHash /\ call2 = NoHash

\* returned_objects and feature_group_to_add left at their default None
AllObjects == [none |-> TRUE, names |-> <<>>]
NoGroups   == [given |-> FALSE, single |-> FALSE, n |-> 0]

\* no st_folium call made
NoPayload ==
    [ made |-> FALSE, exc |-> "none", script |-> <<>>, id |-> <<>>,
      key |-> Sha256Hex(<<>>), default |-> <<>>,
      zoom |-> [py |-> "None"], center |-> [py |-> "None"],
      feature_group |-> [none |-> TRUE, text |-> <<>>],
      layer_control |-> [none |-> TRUE, text |-> <<>>],
      returned_objects |-> AllObjects, groups |-> NoGroups,
      render |-> TRUE, renders |-> 0 ]

\* no map object handed to st_folium
NoFig ==
    [ extent  |-> [available |-> FALSE, value |-> <<>>],
      options |-> [present |-> FALSE, has_zoom |-> FALSE, zoom |-> [py |-> "None"]] ]

FoliumIdle == payload = NoPayload /\ fig = NoFig

\* no _replace_folium_vars call made
NoNorm == [made |-> FALSE, leaflet |-> <<>>, mappings |-> NoMap, out |-> <<>>]

NormIdle == norm = NoNorm

\* the threads of a host that renders in parallel, each on a tree of its own
Procs == {1, 2}

InstOf == <<"A", "B">>

\* a thread that has not called generate_leaflet_string
NoProc ==
    [ pc |-> "idle", nested |-> TRUE, base_id |-> Div, before |-> Eph1,
      ref |-> 0, seen |-> NoMap, work |-> <<>>, leaflet |-> <<>>,
      visited |-> {}, skipped |-> 0, exc |-> "none", out |-> <<>> ]

StepIdle == dicts = <<>> /\ procs = [p \in Procs |-> NoProc]

MkTree(sh, tm) ==
    [ kind |-> sh.kind, children |-> sh.children, parent |-> sh.parent,
      m1 |-> sh.m1, m2 |-> sh.m2, tmpl |-> tm ]

RenderInit ==
    /\ \E sh \in Shapes, tm \in Tmpls : tree = MkTree(sh, tm)
    /\ ids = EphOf
    /\ roles = [i \in Insts |-> RolesOf(tree, EphOf[i])]
    /\ last = NoCall
    /\ produced = [k \in BOOLEAN \X Bases |-> {}]
    /\ calls = 0
    /\ HashIdle
    /\ FoliumIdle
    /\ NormIdle
    /\ StepIdle

\* one call generate_leaflet_string(root of instance i, nested, base_id)
Render(i, nested, base_id) ==
    /\ calls < MaxCalls
    /\ \E r \in {GenerateLeafletString(tree, roles[i], ids[i], Root, nested, base_id)} :
          /\ calls' = calls + 1
          /\ ids' = [ids EXCEPT ![i] = r.ids]
          /\ last' = [ inst |-> i, nested |-> nested, base_id |-> base_id,
                       before |-> ids[i], res |-> r ]
          /\ produced' = IF r.exc = "none"
                         THEN [produced EXCEPT ![<<nested, base_id>>] = @ \cup {r.leaflet}]
                         ELSE produced
    /\ UNCHANGED <<tree, roles, hashVars, foliumVars, normVars, stepVars>>

RenderNext == \E i \in Insts, nested \in BOOLEAN, base_id \in Bases :
                  Render(i, nested, base_id)

RenderSpec == RenderInit /\ [][RenderNext]_vars

-----------------------------------------------------------------------------
(* Properties of one render                                                 *)

Called == last.inst # "none"

\* the nodes the traversal of the last call visited
Visited == {last.res.log[k][2] : k \in {j \in DOMAIN last.res.log :
                                         last.res.log[j][1] = "assign"}}

\* the node whose children list holds n, and n's 1-based place in it
IsChild(t, n) == t.parent[n] # 0
PlaceOf(t, n) == CHOOSE k \in DOMAIN t.children[t.parent[n]] :
                     t.children[t.parent[n]][k] = n

Pane1Of(t, n) == \E d \in Nodes : t.m1[d] = n
Pane2Of(t, n) == \E d \in Nodes : t.m2[d] = n
DualOf(t, n)  == CHOOSE d \in Nodes : t.m1[d] = n \/ t.m2[d] = n

\* the identifier a node has by its position alone
RECURSIVE PositionId(_, _, _)
PositionId(t, n, B) ==
    IF n = Root THEN B
    ELSE IF Pane1Of(t, n) THEN PositionId(t, DualOf(t, n), B)
    ELSE IF Pane2Of(t, n) THEN Div2
    ELSE PositionId(t, t.parent[n], B) \o <<"_">> \o IntToStr(PlaceOf(t, n) - 1)

\* no other visited node carried n's identifier when the call started
UniqueAtStart(n) == \A k \in Visited \ {n} : last.before[k] # last.before[n]

\* C1 as stated: the root gets B, every other visited node gets
\* "<parent's stable id>_<i>" for its 0-based place i among its parent's
\* children, the mapping takes each visited node's identifier at the start
\* to its stable id, and the node's _id is the stable id.
C1_AsStated ==
    Called =>
        \A n \in Visited :
            /\ n = Root => last.res.ids[n] = last.base_id
            /\ n # Root =>
                  /\ IsChild(tree, n)
                  /\ last.res.ids[n] =
                        last.res.ids[tree.parent[n]] \o <<"_">> \o
                        IntToStr(PlaceOf(tree, n) - 1)
            /\ last.before[n] \in DOMAIN last.res.mappings
            /\ last.res.mappings[last.before[n]] = last.res.ids[n]

\* C1 amended: the root gets B, the first pane of a dual map gets the dual
\* node's own stable id and the second pane the literal "div2", every other
\* visited node gets "<parent's stable id>_<i>"; every visited node's _id is
\* that stable id, and the mapping takes the identifier the node carried at
\* the start to it whenever no other visited node carried the same one.
C1_StableIds ==
    Called =>
        \A n \in Visited :
            /\ last.res.ids[n] = PositionId(tree, n, last.base_id)
            /\ UniqueAtStart(n) =>
                  /\ last.before[n] \in DOMAIN last.res.mappings
                  /\ last.res.mappings[last.before[n]] =
                        PositionId(tree, n, last.base_id)

\* a nested render of the dual-map tree that visited all five nodes, each
\* still carrying its ephemeral identifier
C1_Witness ==
    /\ Called /\ last.nested /\ last.res.exc = "none"
    /\ IsDual(tree, Root)
    /\ Visited = Nodes
    /\ last.before = EphOf[last.inst]

\* C2: for a fixed tree shape, nested flag and base_id every call returns the
\* same script text, on the same tree again and on the tree that differs
\* only in its ephemeral identifiers.
C2_Determinism ==
    \A k \in DOMAIN produced : Cardinality(produced[k]) <= 1

\* C3: no two distinct visited nodes are assigned the same stable identifier.
C3_CollisionFree ==
    Called =>
        \A n1, n2 \in Visited : n1 # n2 => last.res.ids[n1] # last.res.ids[n2]

\* the nodes below n, n included
RECURSIVE Subtree(_, _)
Subtree(t, n) ==
    {n} \cup UNION {Subtree(t, t.children[n][k]) : k \in DOMAIN t.children[n]}

\* s ends with w
EndsWith(s, w) == Len(w) <= Len(s) /\ SubSeq(s, Len(s) - Len(w) + 1, Len(s)) = w

\* C8: a nested render of a dual map puts the two panes under different base
\* identifiers, no node of pane 1 shares a stable id with a node of pane 2,
\* and the script ends with the linking fragment naming both panes.
C8_PaneSeparation ==
    (Called /\ last.nested /\ IsDual(tree, Root) /\ last.res.exc = "none") =>
        /\ last.res.ids[tree.m1[Root]] = last.base_id
        /\ last.res.ids[tree.m1[Root]] # last.res.ids[tree.m2[Root]]
        /\ \A a \in Subtree(tree, tree.m1[Root]), b \in Subtree(tree, tree.m2[Root]) :
              last.res.ids[a] # last.res.ids[b]
        /\ EndsWith(last.res.leaflet,
                    FullName("map", last.res.ids[tree.m1[Root]]) \o <<"~">> \o
                    FullName("map", last.res.ids[tree.m2[Root]]) \o <<";">>)

\* the fragment the collaborator returns for a node that renders
FragmentOf(t, rl, idsNow, n) ==
    IF t.tmpl[n] = "alt" THEN AltFragment(t, rl, idsNow, n)
    ELSE Fragment(t, rl, idsNow, n)

\* the fragments of the nodes of n's subtree outside omit, in tree order
RECURSIVE FragList(_, _, _, _, _)
RECURSIVE FragListOfKids(_, _, _, _, _, _)
FragListOfKids(t, rl, idsNow, kids, k, omit) ==
    IF k > Len(kids) THEN <<>>
    ELSE FragList(t, rl, idsNow, kids[k], omit) \o
         FragListOfKids(t, rl, idsNow, kids, k + 1, omit)
FragList(t, rl, idsNow, n, omit) ==
    (IF n \in omit THEN <<>> ELSE << FragmentOf(t, rl, idsNow, n) >>) \o
    FragListOfKids(t, rl, idsNow, t.children[n], 1, omit)

RECURSIVE JoinNL(_)
JoinNL(fs) ==
    IF fs = <<>> THEN <<>>
    ELSE IF Len(fs) = 1 THEN fs[1]
    ELSE fs[1] \o NL \o JoinNL(Tail(fs))

\* the script of the whole tree with the fragments of omit left out
ScriptWithout(t, rl, idsNow, omit) ==
    IF IsDual(t, Root)
    THEN JoinNL(FragList(t, rl, idsNow, t.m1[Root], omit)) \o NL \o
         JoinNL(FragList(t, rl, idsNow, t.m2[Root], omit)) \o
         Fragment(t, rl, idsNow, Root)
    ELSE JoinNL(FragList(t, rl, idsNow, Root, omit))

\* a child whose rendering raises the undefined-template failure
FailingChildren == {n \in Nodes : tree.tmpl[n] = "undef" /\ IsChild(tree, n)}

\* C10 as stated: the render returns normally and the script holds every
\* fragment in order except the failing child's own one.
C10_AsStated ==
    (Called /\ last.nested /\ FailingChildren # {}) =>
        /\ last.res.exc = "none"
        /\ last.res.raw =
              ScriptWithout(tree, roles[last.inst], last.res.ids, FailingChildren)

\* C10 amended: the render returns normally and the script holds every
\* fragment in order except those of the failing child and of the nodes
\* below it.
C10_PartialFailure ==
    (Called /\ last.nested /\ FailingChildren # {}) =>
        /\ last.res.exc = "none"
        /\ last.res.raw =
              ScriptWithout(tree, roles[last.inst], last.res.ids,
                            UNION {Subtree(tree, f) : f \in FailingChildren})
        /\ last.res.leaflet = ReplaceFoliumVars(last.res.raw, last.res.mappings)

\* a nested render in which a child that has a child of its own failed
C10_Witness ==
    /\ Called /\ last.nested /\ last.res.exc = "none"
    /\ \E f \in FailingChildren : tree.children[f] # <<>>
    /\ Len(last.res.raw) > 0

-----------------------------------------------------------------------------
(* generate_js_hash applied to scripts of twin trees                        *)

\* the collaborator's own script of the whole tree, every name carrying the
\* identifier currently set on its node
FoliumScript(t, rl, idsNow) == ScriptWithout(t, rl, idsNow, {})

\* generate_leaflet_string(root) with the default base_id, on fresh objects
FirstLeaflet(t, eph) ==
    GenerateLeafletString(t, RolesOf(t, eph), eph, Root, TRUE, Div)

\* the same call made once more on the objects the first call left behind
SecondLeaflet(t, eph) ==
    GenerateLeafletString(t, RolesOf(t, eph), FirstLeaflet(t, eph).ids,
                          Root, TRUE, Div)

\* scripts rendered from the tree, once per instance
TwinKinds == {"folium", "leaflet", "again"}

\* hand-written scripts: a tile URL of the maps/<hash>/ form beside a chain
\* of underscore-separated runs, and a script that ends in "maps/"
SampleScripts ==
    [ url  |-> <<"u","/","m","a","p","s","/","a","-","1","/","t","_","b","1","_","c",";">>,
      tail |-> <<"v","=","m","a","p","s","/">> ]

Sources == (TwinKinds \X Insts) \cup ({"url", "tail"} \X {"none"})

ScriptsOf(t) ==
    [src \in Sources |->
        IF src[1] = "folium"
        THEN FoliumScript(t, RolesOf(t, EphOf[src[2]]), EphOf[src[2]])
        ELSE IF src[1] = "leaflet" THEN FirstLeaflet(t, EphOf[src[2]]).leaflet
        ELSE IF src[1] = "again" THEN SecondLeaflet(t, EphOf[src[2]]).leaflet
        ELSE SampleScripts[src[1]]]

\* keys a caller passes: None, the text "None", and a text ending in "/"
HashKeys == {KNone, KStr(<<"N","o","n","e">>), KStr(<<"k","/">>)}

\* line 217: max_drawn_objects: int = 0
DefaultMaxDrawnObjects == 0

\* who calls generate_js_hash: a caller directly, or st_folium at line 416
Vias == {"direct", "st_folium"}

HashCall(via, src, caller_key, hover) ==
    LET Returned(key, digest) ==
            [ made |-> TRUE, via |-> via, src |-> src, js |-> scripts[src],
              caller_key |-> caller_key, key |-> key, hover |-> hover,
              pre |-> digest.sha256, digest |-> digest ]
        Made(key) == Returned(key, GenerateJsHash(scripts[src], key, hover))
    IN Made(IF via = "st_folium"
            THEN ComponentKey(caller_key, DefaultMaxDrawnObjects)
            ELSE caller_key)

HashInit ==
    /\ \E sh \in Shapes : tree = MkTree(sh, AllOk)
    /\ ids = EphOf
    /\ roles = [i \in Insts |-> RolesOf(tree, EphOf[i])]
    /\ last = NoCall
    /\ produced = [k \in BOOLEAN \X Bases |-> {}]
    /\ calls = 0
    /\ scripts = ScriptsOf(tree)
    /\ call1 = NoHash
    /\ call2 = NoHash
    /\ FoliumIdle
    /\ NormIdle
    /\ StepIdle

HashFirst(via, src, caller_key, hover) ==
    /\ ~call1.made
    /\ call1' = HashCall(via, src, caller_key, hover)
    /\ UNCHANGED <<renderVars, scripts, call2, foliumVars, normVars, stepVars>>

HashSecond(via, src, caller_key, hover) ==
    /\ call1.made /\ ~call2.made
    /\ call2' = HashCall(via, src, caller_key, hover)
    /\ UNCHANGED <<renderVars, scripts, call1, foliumVars, normVars, stepVars>>

HashNext ==
    \E via \in Vias, src \in Sources, caller_key \in HashKeys, hover \in BOOLEAN :
        \/ HashFirst(via, src, caller_key, hover)
        \/ HashSecond(via, src, caller_key, hover)

HashSpec == HashInit /\ [][HashNext]_vars

-----------------------------------------------------------------------------
(* Properties of the fingerprint                                            *)

HashCalls == {c \in {call1, call2} : c.made}

\* C4: for the same key and the same hover flag, the scripts rendered from
\* two trees of the same structure and content that differ only in their
\* ephemeral identifiers get the same digest.
C4_FingerprintStability ==
    (/\ call1.made /\ call2.made
     /\ call1.src[1] \in TwinKinds /\ call1.src[1] = call2.src[1]
     /\ call1.via = call2.via
     /\ call1.caller_key = call2.caller_key
     /\ call1.hover = call2.hover) =>
        call1.digest = call2.digest

\* two different script texts of twin trees were hashed under one key
C4_Witness ==
    /\ call1.made /\ call2.made
    /\ call1.src[1] \in TwinKinds /\ call1.src[1] = call2.src[1]
    /\ call1.src[2] # call2.src[2]
    /\ call1.js # call2.js
    /\ call1.via = call2.via
    /\ call1.caller_key = call2.caller_key
    /\ call1.hover = call2.hover
    /\ call1.digest = call2.digest

\* C5: for one script, two calls that differ in the key (None versus a
\* string included) or in the hover flag digest different strings and
\* return different fingerprints, called directly or through st_folium.
C5_FingerprintSensitivity ==
    (/\ call1.made /\ call2.made
     /\ call1.js = call2.js
     /\ call1.via = call2.via
     /\ (call1.caller_key # call2.caller_key \/ call1.hover # call2.hover)) =>
        /\ call1.pre # call2.pre
        /\ call1.digest # call2.digest

\* re.sub of the pattern "_[a-z0-9]+(?!_)" of line 505 by the empty string
StripFoliumVars(s) ==
    Outside(s, DOMAIN FoliumVarMatches(s) \cup Tails(FoliumVarMatches(s)),
            1, Len(s))

\* C6 as stated: the digested string is the script without the matches of
\* the underscore + run signature that is not followed by an underscore,
\* then the key once, then the hover flag as text.
C6_AsStated ==
    \A c \in HashCalls :
        c.pre = StripFoliumVars(c.js) \o StrKey(c.key) \o BoolText(c.hover)

\* position p of s lies in an underscore + lowercase-alphanumeric run
InSuffix(s, p) ==
    \/ s[p] = "_" /\ p < Len(s) /\ IsAlnum(s[p + 1])
    \/ \E j \in 1..(p - 1) : s[j] = "_" /\ \A k \in (j + 1)..p : IsAlnum(s[k])

\* the characters of s[lo..hi] outside every such run, in order
RECURSIVE KeptIn(_, _, _)
KeptIn(s, lo, hi) ==
    IF lo > hi THEN <<>>
    ELSE IF lo = hi THEN (IF InSuffix(s, lo) THEN <<>> ELSE <<s[lo]>>)
    ELSE KeptIn(s, lo, (lo + hi) \div 2) \o KeptIn(s, (lo + hi) \div 2 + 1, hi)

Kept(s) == KeptIn(s, 1, Len(s))

\* C6 amended: the digested string is the script without every underscore +
\* lowercase-alphanumeric run (whatever follows the run), then the key;
\* from that text every "maps/<run of - a-z 0-9>/" is removed; then the key
\* a second time and the hover flag as text; the fingerprint is the digest
\* of exactly that string.
C6_DigestInput ==
    \A c \in HashCalls :
        /\ c.pre = StripUrls(Kept(c.js) \o StrKey(c.key)) \o
                   StrKey(c.key) \o BoolText(c.hover)
        /\ c.digest = Sha256Hex(c.pre)

\* a script with a chain of runs and a maps/ URL was hashed with a text key
C6_Witness ==
    /\ call1.made
    /\ call1.src = <<"url", "none">>
    /\ Contains(call1.js, MapsSlash)
    /\ ~call1.key.none /\ call1.key.text # <<>>
    /\ ~Contains(call1.pre, MapsSlash)

-----------------------------------------------------------------------------
(* The orchestrator st_folium                                               *)

\* lines 329-342: the keys of _defaults in their order
CanonicalFields ==
    << "last_clicked", "last_object_clicked", "last_object_clicked_tooltip",
       "last_object_clicked_popup", "all_drawings", "last_active_drawing",
       "bounds", "zoom", "last_circle_radius", "last_circle_polygon" >>

\* Python values the envelope holds
PyNone      == [py |-> "None"]
PyEmptyDict == [py |-> "dict"]
PyInt(n)    == [py |-> "int", value |-> n]
PyPair(a, b) == [py |-> "tuple", first |-> a, second |-> b]

\* lines 324-327: get_bounds(), the null pairs when it raises AttributeError
GetBounds(f) ==
    IF f.extent.available THEN f.extent.value
    ELSE << <<PyNone, PyNone>>, <<PyNone, PyNone>> >>

\* lines 311-322: bounds_to_dict
BoundsToDict(bounds_list) ==
    [ _southWest |-> [lat |-> bounds_list[1][1], lng |-> bounds_list[1][2]],
      _northEast |-> [lat |-> bounds_list[2][1], lng |-> bounds_list[2][2]] ]

\* lines 337-339: options.get("zoom") if hasattr(folium_map, "options") else {}
ZoomDefault(f) ==
    IF f.options.present
    THEN (IF f.options.has_zoom THEN f.options.zoom ELSE PyNone)
    ELSE PyEmptyDict

\* the value _defaults holds for a key
DefaultValue(k, f) ==
    IF k = "bounds" THEN BoundsToDict(GetBounds(f))
    ELSE IF k = "zoom" THEN ZoomDefault(f)
    ELSE PyNone

\* lines 329-342: _defaults, its items in their order
DefaultsTable(f) ==
    [i \in DOMAIN CanonicalFields |->
        <<CanonicalFields[i], DefaultValue(CanonicalFields[i], f)>>]

\* k in returned_objects
NameIn(k, names) == \E i \in DOMAIN names : names[i] = k

\* the entries taken in the order the caller listed the names
DefaultsInCallerOrder(_defaults, returned_objects) ==
    IF returned_objects.none THEN _defaults
    ELSE LET Known(k) == NameIn(k, CanonicalFields)
             names == SelectSeq(returned_objects.names, Known)
         IN [i \in DOMAIN names |->
                _defaults[CHOOSE j \in DOMAIN _defaults : _defaults[j][1] = names[i]]]

\* lines 346-350: the entries of _defaults, in its order, that the caller
\* asked for
Defaults(_defaults, returned_objects) ==
    LET Wanted(e) == returned_objects.none \/ NameIn(e[1], returned_objects.names)
    IN SelectSeq(_defaults, Wanted)

\* what callers pass as returned_objects
ReturnedChoices ==
    { AllObjects,
      [none |-> FALSE, names |-> <<"bounds", "zoom">>],
      [none |-> FALSE, names |-> <<"zoom", "bounds">>],
      [none |-> FALSE, names |-> <<"Zoom", "center", "last_clicked", "zoom", "zoom">>] }

\* what callers pass as feature_group_to_add: nothing, one group, an empty
\* list or a list of several; groups are attached to plain maps
GroupChoices(t) ==
    IF IsDual(t, Root) THEN {NoGroups}
    ELSE {NoGroups, [given |-> TRUE, single |-> TRUE, n |-> 1]} \cup
         {[given |-> TRUE, single |-> FALSE, n |-> k] : k \in {0, MaxGroups}}

\* a layer control is passed for plain maps
ControlChoices(t) == IF IsDual(t, Root) THEN {FALSE} ELSE BOOLEAN

\* the call st_folium(fig) with every other argument at its default
BaseCall ==
    [ returned_objects |-> AllObjects, groups |-> NoGroups,
      layer_control |-> FALSE, render |-> TRUE,
      zoom |-> PyNone, center |-> PyNone ]

\* the calls made: one argument away from the defaults at a time
CallChoices(t) ==
    {[BaseCall EXCEPT !.groups = g] : g \in GroupChoices(t)} \cup
    {[BaseCall EXCEPT !.returned_objects = r] : r \in ReturnedChoices} \cup
    {[BaseCall EXCEPT !.layer_control = c] : c \in ControlChoices(t)} \cup
    { [BaseCall EXCEPT !.render = FALSE],
      [BaseCall EXCEPT !.zoom = PyInt(5)],
      [BaseCall EXCEPT !.center = PyPair(1, 2)] }

\* lines 295-296 and 303: the calls of folium_map.render() one st_folium
\* call makes
MapRenders(render) == (IF render THEN 1 ELSE 0) + 1

\* lines 294-368 on the objects: folium_map.render() captures the names the
\* layers carry now, _get_map_string assigns the stable identifiers, then
\* the groups are attached and rendered in call order, then the control
Run(t, idsNow, groups, layer_control) ==
    LET Failed(rl, r) ==
            [ tree |-> t, ids |-> r.ids, roles |-> rl, exc |-> r.exc,
              leaflet |-> <<>>, id |-> <<>>, text |-> <<>>, control |-> <<>> ]
        Mapped(rl, ms) ==
            IF ms.exc # "none" THEN Failed(rl, ms)
            ELSE LET Controlled(gs, cs) ==
                         [ tree |-> cs.tree, ids |-> cs.ids, roles |-> cs.roles,
                           exc |-> cs.exc, leaflet |-> ms.leaflet,
                           id |-> GetFullId(t, ms.ids, Root), text |-> gs.text,
                           control |-> cs.text ]
                     Grouped(gs) ==
                         IF gs.exc # "none" THEN Failed(rl, gs)
                         ELSE IF layer_control
                         THEN Controlled(gs, GetLayerControlString(
                                  [tree |-> gs.tree, ids |-> gs.ids,
                                   roles |-> gs.roles]))
                         ELSE Controlled(gs, [gs EXCEPT !.text = <<>>])
                 IN Grouped(FeatureGroupStrings(
                                [tree |-> t, ids |-> ms.ids, roles |-> rl],
                                0, groups.n, <<>>))
        Captured(rl) == Mapped(rl, GetMapString(t, rl, idsNow))
    IN Captured(RolesOf(t, idsNow))

\* the default key=None and return_on_hover=False of lines 204 and 211
DefaultKey == KNone
DefaultHover == FALSE

\* what the map object answers besides its script: get_bounds() and options
FigPlain ==
    [ extent  |-> [available |-> TRUE,
                   value |-> << <<PyInt(1), PyInt(2)>>, <<PyInt(3), PyInt(4)>> >>],
      options |-> [present |-> TRUE, has_zoom |-> TRUE, zoom |-> PyInt(10)] ]

\* an object without get_bounds whose options hold no zoom
FigBare ==
    [ extent  |-> [available |-> FALSE, value |-> <<>>],
      options |-> [present |-> TRUE, has_zoom |-> FALSE, zoom |-> PyNone] ]

\* an object that has no options attribute, as a DualMap
FigNoOptions ==
    [ extent  |-> [available |-> TRUE,
                   value |-> << <<PyInt(1), PyInt(2)>>, <<PyInt(3), PyInt(4)>> >>],
      options |-> [present |-> FALSE, has_zoom |-> FALSE, zoom |-> PyNone] ]

\* the figures handed to st_folium: plain maps with a draw control at one
\* position or another, and a DualMap
FoliumFigures ==
    { <<ShapeDrawSecond, FigPlain>>, <<ShapeDrawThird, FigBare>>,
      <<ShapeDual, FigNoOptions>> }

FoliumInit ==
    /\ \E sf \in FoliumFigures : tree = WithGroups(sf[1]) /\ fig = sf[2]
    /\ ids = [A |-> FreshIds, B |-> Eph2]
    /\ roles = [i \in Insts |-> RolesOf(tree, ids[i])]
    /\ last = NoCall
    /\ produced = [k \in BOOLEAN \X Bases |-> {}]
    /\ calls = 0
    /\ HashIdle
    /\ payload = NoPayload
    /\ NormIdle
    /\ StepIdle

\* one call st_folium(fig, ...) with the groups and the control given; the
\* other arguments do not touch the objects
StFolium(groups, layer_control) ==
    \E r \in {Run(tree, ids["A"], groups, layer_control)} :
        /\ tree' = r.tree
        /\ ids' = [ids EXCEPT !["A"] = r.ids]
        /\ roles' = [roles EXCEPT !["A"] = r.roles]
        /\ \E args \in {a \in CallChoices(tree) :
                           a.groups = groups /\ a.layer_control = layer_control} :
              payload' =
                  IF r.exc # "none"
                  THEN [NoPayload EXCEPT !.made = TRUE, !.exc = r.exc]
                  ELSE [ made |-> TRUE,
                         exc |-> "none",
                         script |-> r.leaflet,
                         id |-> r.id,
                         key |-> GenerateJsHash(r.leaflet,
                                     ComponentKey(DefaultKey, DefaultMaxDrawnObjects),
                                     DefaultHover),
                         default |-> Defaults(DefaultsTable(fig), args.returned_objects),
                         zoom |-> args.zoom,
                         center |-> args.center,
                         feature_group |-> [none |-> ~groups.given, text |-> r.text],
                         layer_control |-> [none |-> ~layer_control, text |-> r.control],
                         returned_objects |-> args.returned_objects,
                         groups |-> groups,
                         render |-> args.render,
                         renders |-> MapRenders(args.render) ]
        /\ UNCHANGED <<fig, last, produced, calls, hashVars, normVars, stepVars>>

FoliumNext ==
    \E groups \in GroupChoices(tree), layer_control \in ControlChoices(tree) :
        StFolium(groups, layer_control)

FoliumSpec == FoliumInit /\ [][FoliumNext]_vars

-----------------------------------------------------------------------------
(* Properties of the orchestrator                                           *)

Delivered == payload.made /\ payload.exc = "none"

\* the keys of the default envelope, in its order
EnvelopeKeys == [i \in DOMAIN payload.default |-> payload.default[i][1]]

Range(f) == {f[i] : i \in DOMAIN f}

CanonicalIndex(k) == CHOOSE i \in DOMAIN CanonicalFields : CanonicalFields[i] = k

\* C7: the keys of the default envelope are exactly the canonical fields
\* the caller named (exact, case-sensitive match), all of them when no
\* collection was supplied, listed in canonical order whatever the order of
\* the caller's collection; {"bounds", "zoom"} gives bounds then zoom.
C7_EnvelopeFiltering ==
    Delivered =>
        /\ Range(EnvelopeKeys) =
              IF payload.returned_objects.none THEN Range(CanonicalFields)
              ELSE Range(CanonicalFields) \cap Range(payload.returned_objects.names)
        /\ \A i, j \in DOMAIN EnvelopeKeys :
              i < j => CanonicalIndex(EnvelopeKeys[i]) < CanonicalIndex(EnvelopeKeys[j])
        /\ (/\ ~payload.returned_objects.none
            /\ Range(payload.returned_objects.names) = {"bounds", "zoom"}) =>
              EnvelopeKeys = <<"bounds", "zoom">>

\* the caller listed zoom before bounds and got bounds before zoom
C7_Witness ==
    /\ Delivered
    /\ payload.returned_objects = [none |-> FALSE, names |-> <<"zoom", "bounds">>]
    /\ EnvelopeKeys = <<"bounds", "zoom">>

\* the positions of a statement head in a script, in increasing order
Positions(s, head) ==
    LET P == {p \in 1..Len(s) : s[p] = head}
    IN [k \in 1..Cardinality(P) |->
           CHOOSE p \in P : Cardinality({q \in P : q <= p}) = k]

\* the argument of the statement whose head is at position p
ArgumentAt(s, p) == SubSeq(s, p + 1, Find(s, p + 1, <<StmtClose>>) - 1)

\* what the browser does when it runs the script: the layers added to
\* map_div and the values pushed onto window.feature_group, in order
AddedLayers(s) ==
    [k \in DOMAIN Positions(s, AddLayerOpen) |->
        ArgumentAt(s, Positions(s, AddLayerOpen)[k])]
PushedGroups(s) ==
    [k \in DOMAIN Positions(s, PushOpen) |->
        ArgumentAt(s, Positions(s, PushOpen)[k])]

\* the script variable of the group of index k
GroupVariable(k) ==
    KindName["feature_group"] \o <<"_">> \o FeatureGroupPrefix \o IntToStr(k)

\* C9: when n feature groups are given (one group counts as a list of one)
\* the k-th group in call order carries the identifier feature_group_k,
\* k = 0..n-1, the identifiers are pairwise distinct, and the script adds
\* each group to map_div and then pushes it onto window.feature_group, group
\* after group in call order.
C9_GroupNamingAndOrder ==
    (Delivered /\ payload.groups.given) =>
        /\ \A k \in 0..(payload.groups.n - 1) :
              ids["A"][GroupNode(k)] = FeatureGroupPrefix \o IntToStr(k)
        /\ \A j, k \in 0..(payload.groups.n - 1) :
              j # k => ids["A"][GroupNode(j)] # ids["A"][GroupNode(k)]
        /\ ~payload.feature_group.none
        /\ PushedGroups(payload.feature_group.text) =
              [k \in 1..payload.groups.n |-> GroupVariable(k - 1)]
        /\ AddedLayers(payload.feature_group.text) =
              [k \in 1..payload.groups.n |-> GroupVariable(k - 1)]
        /\ \A k \in 1..payload.groups.n :
              /\ Positions(payload.feature_group.text, AddLayerOpen)[k] <
                 Positions(payload.feature_group.text, PushOpen)[k]
              /\ k < payload.groups.n =>
                    Positions(payload.feature_group.text, PushOpen)[k] <
                    Positions(payload.feature_group.text, AddLayerOpen)[k + 1]

\* a list of several groups was given and all of them were pushed
C9_Witness ==
    /\ Delivered
    /\ payload.groups.given /\ ~payload.groups.single /\ payload.groups.n >= 2
    /\ Len(PushedGroups(payload.feature_group.text)) = payload.groups.n

-----------------------------------------------------------------------------
(* _replace_folium_vars applied to arbitrary short scripts                  *)

\* length of the scripts handed to _replace_folium_vars
MaxScriptLen == 5

\* an underscore, two characters of [a-z0-9] and one outside the class
NormAlphabet == {"_", "a", "b", ";"}

NormScripts == UNION {[1..n -> NormAlphabet] : n \in 0..MaxScriptLen}

\* mappings as a traversal leaves them: empty, an identifier taken to a
\* stable one, a two-character identifier, and a root rendered under the
\* empty base_id beside an identifier taken to another one's text
NormMappings ==
    { NoMap,
      Put(NoMap, <<"a">>, <<"d", "_", "0">>),
      Put(NoMap, <<"a", "b">>, <<"d">>),
      Put(Put(NoMap, <<"a">>, <<>>), <<"b">>, <<"a">>) }

NormInit ==
    /\ tree = MkTree(ShapeTile, AllOk)
    /\ ids = EphOf
    /\ roles = [i \in Insts |-> RolesOf(tree, EphOf[i])]
    /\ last = NoCall
    /\ produced = [k \in BOOLEAN \X Bases |-> {}]
    /\ calls = 0
    /\ HashIdle
    /\ FoliumIdle
    /\ \E leaflet \in NormScripts, mappings \in NormMappings :
          norm = [NoNorm EXCEPT !.leaflet = leaflet, !.mappings = mappings]
    /\ StepIdle

\* the call _replace_folium_vars(leaflet, mappings)
Normalize ==
    /\ ~norm.made
    /\ norm' = [norm EXCEPT !.made = TRUE,
                            !.out = ReplaceFoliumVars(norm.leaflet, norm.mappings)]
    /\ UNCHANGED <<renderVars, hashVars, foliumVars, stepVars>>

NormNext == Normalize

NormSpec == NormInit /\ [][NormNext]_vars

-----------------------------------------------------------------------------
(* Properties of the normalization pass                                     *)

\* the first positions of the matches whose candidate is a key of the mapping
KeyMatches(s, mappings) ==
    {j \in DOMAIN FoliumVarMatches(s) :
        StripUnderscores(SubSeq(s, j, FoliumVarMatches(s)[j])) \in DOMAIN mappings}

\* s with the match starting at each position of DOMAIN xs giving way to xs
RECURSIVE Weave(_, _, _, _)
Weave(s, ends, xs, i) ==
    IF i > Len(s) THEN <<>>
    ELSE IF i \in DOMAIN xs THEN xs[i] \o Weave(s, ends, xs, ends[i] + 1)
    ELSE <<s[i]>> \o Weave(s, ends, xs, i + 1)

\* texts a rewritten match may hold: itself, or an underscore and a value
Rewritings(s, mappings) ==
    {SubSeq(s, j, FoliumVarMatches(s)[j]) : j \in KeyMatches(s, mappings)} \cup
    {<<"_">> \o mappings[k] : k \in DOMAIN mappings}

\* C11: _replace_folium_vars changes the script only inside the matches of
\* the suffix signature whose candidate is a key of the mapping: every
\* character outside them is kept in place, so a script without a match and
\* a script whose candidates are all absent from the mapping come back
\* unchanged.
C11_NormalizationFrame ==
    norm.made =>
        /\ KeyMatches(norm.leaflet, norm.mappings) = {} => norm.out = norm.leaflet
        /\ \E xs \in [KeyMatches(norm.leaflet, norm.mappings) ->
                          Rewritings(norm.leaflet, norm.mappings)] :
              norm.out = Weave(norm.leaflet, FoliumVarMatches(norm.leaflet), xs, 1)

\* a script with a match that is a key and a match that is not: the first
\* was rewritten, the second kept
C11_Witness ==
    /\ norm.made
    /\ norm.leaflet = <<"_", "a", ";", "_", "b">>
    /\ norm.mappings = Put(NoMap, <<"a">>, <<"d", "_", "0">>)
    /\ norm.out = <<"_", "d", "_", "0", ";", "_", "b">>

\* the underscores followed by a whole lowercase-alphanumeric run that no
\* underscore follows, as a function from the underscore to the run's end
WholeRunMatches(s) ==
    [j \in {k \in 1..Len(s) :
               /\ s[k] = "_"
               /\ RunEnd(s, k + 1) > k
               /\ (RunEnd(s, k + 1) = Len(s) \/ s[RunEnd(s, k + 1) + 1] # "_")} |->
        RunEnd(s, j + 1)]

\* each whole run that is a key gives way to its stable id after the
\* underscore, everything else stays
RewriteWholeRuns(s, mappings) ==
    Weave(s, WholeRunMatches(s),
          [j \in {k \in DOMAIN WholeRunMatches(s) :
                     SubSeq(s, k + 1, WholeRunMatches(s)[k]) \in DOMAIN mappings} |->
              <<"_">> \o mappings[SubSeq(s, j + 1, WholeRunMatches(s)[j])]],
          1)

-----------------------------------------------------------------------------
(* Order of the steps of one render                                         *)

\* the positions of the last call's log that hold step on a node of S
StepsAt(step, S) ==
    {k \in DOMAIN last.res.log :
        last.res.log[k][1] = step /\ last.res.log[k][2] \in S}

\* a child whose rendering raises, and the nodes at or below such a child
RaisingChildren ==
    {n \in Nodes : tree.tmpl[n] \in {"undef", "attr"} /\ IsChild(tree, n)}
BelowRaising == UNION {Subtree(tree, f) : f \in RaisingChildren}

\* C16: in a nested render of a dual map the first pane and its subtree and
\* then the second pane and its subtree are rendered (identifiers assigned,
\* fragments produced for every node that renders) before the linking
\* fragment is requested, and the script is the first pane's text, the
\* second pane's text, then the linking fragment; a render that is not
\* nested returns the first pane's own fragment only: no text of the second
\* pane, no children, no linking fragment.
C16_DualOrdering ==
    (Called /\ IsDual(tree, Root) /\ last.res.exc = "none") =>
        IF last.nested
        THEN /\ Cardinality(StepsAt("link", {Root})) = 1
             /\ \A n \in Subtree(tree, tree.m1[Root]) \cup
                         Subtree(tree, tree.m2[Root]) :
                   /\ n \notin BelowRaising \/ n \in RaisingChildren =>
                         StepsAt("assign", {n}) # {}
                   /\ n \notin BelowRaising => StepsAt("fragment", {n}) # {}
             /\ \A a \in StepsAt("assign", Subtree(tree, tree.m1[Root])) \cup
                         StepsAt("fragment", Subtree(tree, tree.m1[Root])),
                   b \in StepsAt("assign", Subtree(tree, tree.m2[Root])) \cup
                         StepsAt("fragment", Subtree(tree, tree.m2[Root])),
                   l \in StepsAt("link", {Root}) : a < b /\ b < l
             /\ last.res.raw =
                   JoinNL(FragList(tree, roles[last.inst], last.res.ids,
                                   tree.m1[Root], BelowRaising)) \o NL \o
                   JoinNL(FragList(tree, roles[last.inst], last.res.ids,
                                   tree.m2[Root], BelowRaising)) \o
                   Fragment(tree, roles[last.inst], last.res.ids, Root)
        ELSE /\ last.res.raw =
                   FragmentOf(tree, roles[last.inst], last.res.ids, tree.m1[Root])
             /\ StepsAt("fragment", Nodes) = StepsAt("fragment", {tree.m1[Root]})
             /\ StepsAt("assign", Nodes) = StepsAt("assign", {Root, tree.m1[Root]})
             /\ StepsAt("link", Nodes) = {}

\* a nested render of a dual map whose nodes all render: five identifiers
\* assigned, four fragments produced, then the link
C16_Witness ==
    /\ Called /\ last.nested /\ IsDual(tree, Root) /\ last.res.exc = "none"
    /\ BelowRaising = {}
    /\ Cardinality(StepsAt("assign", Nodes)) = 5
    /\ Cardinality(StepsAt("fragment", Nodes)) = 4
    /\ last.res.log[Len(last.res.log)] = <<"link", Root>>

-----------------------------------------------------------------------------
(* Properties of successive st_folium calls and of the envelope             *)

\* C12: from one st_folium call on a map object to the next one on the same
\* object, with the same key, return_on_hover and max_drawn_objects, a
\* change of feature_group_to_add, layer_control, zoom or center only leaves
\* the main script and the key handed to the host as they were, also after
\* a call that attached a feature group or a control to the map.
C12_NoReload ==
    [][(/\ payload.made /\ payload.exc = "none"
        /\ payload'.made /\ payload'.exc = "none"
        /\ payload'.returned_objects = payload.returned_objects
        /\ payload'.render = payload.render) =>
            /\ payload'.script = payload.script
            /\ payload'.key = payload.key]_vars

\* C13: st_folium invokes the map's full rendering step only when render is
\* True; with render=False it does not invoke it.
C13_RenderFlag ==
    Delivered => (payload.renders > 0 => payload.render)

\* the value the envelope holds for key k
EnvelopeValue(k) ==
    payload.default[CHOOSE i \in DOMAIN payload.default : payload.default[i][1] = k][2]

\* C17: when the extent query is unavailable st_folium does not fail and
\* both corners of the envelope's bounds are the null pair; the envelope's
\* zoom is the configured zoom when the map's configuration has one and the
\* empty mapping in every other case, a configuration without a zoom
\* included.
C17_EnvelopeSentinels ==
    /\ (payload.made /\ ~fig.extent.available) => payload.exc = "none"
    /\ (Delivered /\ "bounds" \in Range(EnvelopeKeys) /\ ~fig.extent.available) =>
          EnvelopeValue("bounds") =
              [ _southWest |-> [lat |-> PyNone, lng |-> PyNone],
                _northEast |-> [lat |-> PyNone, lng |-> PyNone] ]
    /\ (Delivered /\ "zoom" \in Range(EnvelopeKeys)) =>
          EnvelopeValue("zoom") =
              IF fig.options.present /\ fig.options.has_zoom
              THEN fig.options.zoom
              ELSE PyEmptyDict

Upper == {"A","B","C","D","E","F","G","H","I","J","K","L","M",
          "N","O","P","Q","R","S","T","U","V","W","X","Y","Z"}

\* a character a script variable name may hold
IsNameChar(c) == c \in Alnum \cup Upper \cup {"_", "$"}

\* the name w occurs in s as a whole name
HasName(s, w) ==
    \E p \in 1..Len(s) :
        /\ StartsAt(s, p, w)
        /\ p = 1 \/ ~IsNameChar(s[p - 1])
        /\ p + Len(w) > Len(s) \/ ~IsNameChar(s[p + Len(w)])

\* C19: the main script makes the plain name drawnItems available: a draw
\* control's store was renamed to exactly drawnItems or the declaration
\* "var drawnItems = [];" was appended, wherever the draw control stands
\* among the map's children.
C19_DrawnItemsAvailable ==
    Delivered => HasName(payload.script, DrawnItems)

-----------------------------------------------------------------------------
(* Two threads, each rendering a tree of its own, step by step              *)

\* lines 442-443: "if mappings is None: mappings = {}" allocates a dict; the
\* address of the dict the call works on

\* one dict kept for every call, as a mutable default argument would be
SharedDict(heap) == 1

NewDict(heap) == Len(heap) + 1

\* a pending call _generate_leaflet_string(m, nested, base_id, mappings);
\* role tells who made it (the caller, a DualMap for a pane, the children
\* loop), sep that a newline goes before what it returns
Visit(m, nested, base_id, role, sep) ==
    [ op |-> "visit", m |-> m, nested |-> nested, base_id |-> base_id,
      role |-> role, sep |-> sep ]

\* the pending m._template.module.script(m) of a DualMap, line 477
Link(m) ==
    [ op |-> "link", m |-> m, nested |-> TRUE, base_id |-> <<>>,
      role |-> "link", sep |-> FALSE ]

\* lines 491-497: the calls the children loop of m makes, in order
ChildVisits(t, m, base_id) ==
    [k \in DOMAIN t.children[m] |->
        Visit(t.children[m][k], TRUE, ChildBase(base_id, Enumerate(t, m, k)),
              "child", TRUE)]

ParallelInit ==
    /\ \E sh \in Shapes, tm \in Tmpls : tree = MkTree(sh, tm)
    /\ ids = EphOf
    /\ roles = [i \in Insts |-> RolesOf(tree, EphOf[i])]
    /\ last = NoCall
    /\ produced = [k \in BOOLEAN \X Bases |-> {}]
    /\ calls = 0
    /\ HashIdle
    /\ FoliumIdle
    /\ NormIdle
    /\ StepIdle

\* thread p enters generate_leaflet_string(root, nested, base_id): line 533
\* calls _generate_leaflet_string without a mappings argument
Start(p, nested, base_id) ==
    /\ procs[p].pc = "idle"
    /\ \E ref \in {NewDict(dicts)} :
          /\ dicts' = IF ref > Len(dicts) THEN Append(dicts, NoMap) ELSE dicts
          /\ procs' = [procs EXCEPT ![p] =
                [ NoProc EXCEPT !.pc = "running", !.nested = nested,
                                !.base_id = base_id, !.before = ids[InstOf[p]],
                                !.ref = ref, !.seen = dicts'[ref],
                                !.work = <<Visit(Root, nested, base_id, "caller", FALSE)>> ]]
    /\ UNCHANGED <<renderVars, hashVars, foliumVars, normVars>>

\* thread p runs the body of one _generate_leaflet_string call up to its
\* first nested call or its return: lines 445-456, then the DualMap branch
\* (459-475), or the node's own fragment (481-489) and the start of the
\* children loop; what a child raises is caught by the loop (499), what the
\* root or a pane raises leaves the whole call
StepVisit(p) ==
    /\ procs[p].pc = "running"
    /\ procs[p].work # <<>>
    /\ Head(procs[p].work).op = "visit"
    /\ \E it \in {Head(procs[p].work)} :
       \E a \in {Assign(tree, roles[InstOf[p]], it.m, it.base_id,
                        [ids |-> ids[InstOf[p]], mappings |-> dicts[procs[p].ref],
                         log |-> <<>>])} :
          /\ ids' = [ids EXCEPT ![InstOf[p]] = a.ids]
          /\ dicts' = [dicts EXCEPT ![procs[p].ref] = a.mappings]
          /\ procs' = [procs EXCEPT ![p] =
                IF IsDual(tree, it.m)
                THEN [@ EXCEPT
                        !.visited = @ \cup {it.m},
                        !.skipped = 0,
                        !.work =
                            (IF ~it.nested
                             THEN <<Visit(tree.m1[it.m], FALSE, it.base_id, "pane", it.sep)>>
                             ELSE <<Visit(tree.m1[it.m], TRUE, it.base_id, "pane", it.sep),
                                    Visit(tree.m2[it.m], TRUE, Div2, "pane", TRUE),
                                    Link(it.m)>>) \o Tail(procs[p].work)]
                ELSE IF tree.tmpl[it.m] \in {"undef", "attr"}
                THEN IF it.role = "child" /\ Caught(Raised(tree.tmpl[it.m]))
                     THEN [@ EXCEPT !.visited = @ \cup {it.m},
                                    !.skipped = it.m,
                                    !.work = Tail(procs[p].work)]
                     ELSE [@ EXCEPT !.visited = @ \cup {it.m},
                                    !.skipped = 0,
                                    !.pc = "done",
                                    !.exc = Raised(tree.tmpl[it.m]),
                                    !.work = <<>>]
                ELSE [@ EXCEPT
                        !.visited = @ \cup {it.m},
                        !.skipped = 0,
                        !.leaflet = @ \o (IF it.sep THEN NL ELSE <<>>) \o
                                    FragmentOf(tree, roles[InstOf[p]], a.ids, it.m),
                        !.work = (IF it.nested
                                  THEN ChildVisits(tree, it.m, it.base_id)
                                  ELSE <<>>) \o Tail(procs[p].work)]]
    /\ UNCHANGED <<tree, roles, last, produced, calls, hashVars, foliumVars, normVars>>

\* thread p asks the DualMap for the script that syncs the panes, line 477
StepLink(p) ==
    /\ procs[p].pc = "running"
    /\ procs[p].work # <<>>
    /\ Head(procs[p].work).op = "link"
    /\ procs' = [procs EXCEPT ![p] =
          IF tree.tmpl[Head(procs[p].work).m] # "ok"
          THEN [@ EXCEPT !.pc = "done", !.skipped = 0, !.work = <<>>,
                         !.exc = Raised(tree.tmpl[Head(procs[p].work).m])]
          ELSE [@ EXCEPT !.skipped = 0,
                         !.leaflet = @ \o Fragment(tree, roles[InstOf[p]],
                                                   ids[InstOf[p]],
                                                   Head(procs[p].work).m),
                         !.work = Tail(procs[p].work)]]
    /\ UNCHANGED <<renderVars, dicts, hashVars, foliumVars, normVars>>

\* thread p leaves generate_leaflet_string: lines 535-537
Finish(p) ==
    /\ procs[p].pc = "running"
    /\ procs[p].work = <<>>
    /\ procs' = [procs EXCEPT ![p] =
          [@ EXCEPT !.pc = "done", !.skipped = 0,
                    !.out = ReplaceFoliumVars(procs[p].leaflet, dicts[procs[p].ref])]]
    /\ UNCHANGED <<renderVars, dicts, hashVars, foliumVars, normVars>>

ParallelNext ==
    \E p \in Procs :
        \/ \E nested \in BOOLEAN, base_id \in Bases : Start(p, nested, base_id)
        \/ StepVisit(p)
        \/ StepLink(p)
        \/ Finish(p)

ParallelSpec == ParallelInit /\ [][ParallelNext]_vars

-----------------------------------------------------------------------------
(* Properties of renders that run side by side                              *)

\* the call of thread p made alone on the objects as they were at its start
Alone(p) ==
    GenerateLeafletString(tree, roles[InstOf[p]], procs[p].before, Root,
                          procs[p].nested, procs[p].base_id)

\* C14: whatever the interleaving of the steps of two renders on disjoint
\* trees, each render starts from an empty mapping of its own, no identifier
\* of a tree changes before its render starts, and each render ends with the
\* script, the mapping and the identifiers it ends with when run alone.
C14_DisjointRenders ==
    \A p \in Procs :
        /\ procs[p].pc = "idle" => ids[InstOf[p]] = EphOf[InstOf[p]]
        /\ procs[p].pc # "idle" =>
              /\ procs[p].seen = NoMap
              /\ \A q \in Procs \ {p} : procs[q].pc # "idle" => procs[q].ref # procs[p].ref
        /\ procs[p].pc = "done" =>
              /\ procs[p].exc = Alone(p).exc
              /\ procs[p].out = Alone(p).leaflet
              /\ dicts[procs[p].ref] = Alone(p).mappings
              /\ ids[InstOf[p]] = Alone(p).ids

\* the second render started after the first, on a dict of its own, and has
\* returned its script while the first is still under way with entries in
\* its mapping
C14_Witness ==
    /\ procs[1].pc = "running" /\ procs[1].work # <<>>
    /\ procs[1].visited # {} /\ DOMAIN dicts[procs[1].ref] # {}
    /\ procs[2].pc = "done" /\ procs[2].exc = "none" /\ procs[2].nested
    /\ procs[1].ref < procs[2].ref
    /\ procs[2].seen = NoMap
    /\ procs[2].out = Alone(2).leaflet /\ Len(procs[2].out) > 0

\* the identifiers the same render leaves when every node renders
AllRendering(p) ==
    GenerateLeafletString([tree EXCEPT !.tmpl = AllOk], roles[InstOf[p]],
                          procs[p].before, Root, procs[p].nested,
                          procs[p].base_id).ids

\* C18: skipping a child that raises does not renumber its siblings.  Right
\* after child i of a node with stable id P was skipped, its _id and the
\* mapping entry of the identifier it carried are already "P_i"; and when
\* the nested render has ended every visited node carries the stable id of
\* its original position, the one it gets in a render of the same tree in
\* which the child renders.
C18_NoRenumbering ==
    \A p \in Procs :
        /\ procs[p].skipped # 0 =>
              /\ ids[InstOf[p]][procs[p].skipped] =
                    PositionId(tree, procs[p].skipped, procs[p].base_id)
              /\ procs[p].before[procs[p].skipped] \in DOMAIN dicts[procs[p].ref]
              /\ dicts[procs[p].ref][procs[p].before[procs[p].skipped]] =
                    PositionId(tree, procs[p].skipped, procs[p].base_id)
        /\ (/\ procs[p].pc = "done" /\ procs[p].nested /\ procs[p].exc = "none"
            /\ RaisingChildren \cap procs[p].visited # {}) =>
              \A n \in procs[p].visited :
                  /\ ids[InstOf[p]][n] = PositionId(tree, n, procs[p].base_id)
                  /\ ids[InstOf[p]][n] = AllRendering(p)[n]

\* the first child of the root was skipped and the render went on to its
\* sibling, which carries the index 1
C18_Witness ==
    /\ tree.children[Root] = <<2, 3>>
    /\ tree.tmpl[2] \in {"undef", "attr"}
    /\ procs[1].pc = "done" /\ procs[1].nested /\ procs[1].exc = "none"
    /\ {2, 3} \subseteq procs[1].visited
    /\ ids["A"][2] = ChildBase(procs[1].base_id, 0)
    /\ ids["A"][3] = ChildBase(procs[1].base_id, 1)

====
